---- MODULE Spec2Model ----
(***************************************************************************)
(* Model of the Todo domain service (app/service/todo_service.go) over a   *)
(* GORM-managed "todos" table (db/model: Todo, Priority, request shapes).  *)
(*                                                                         *)
(* Pointers and nullable columns are modelled as sequences of length 0 or  *)
(* 1: <<>> is nil / NULL and <<v>> is a pointer to v / a non-NULL v.       *)
(* The table is a sequence of rows; the row at index i has primary key i   *)
(* (the store assigns ids in insertion order and never removes a row).     *)
(* UpdateTodo and DeleteTodo make two separate store calls each, so each   *)
(* is two actions and calls of different request goroutines interleave.    *)
(***************************************************************************)
EXTENDS Integers, Sequences, FiniteSets, TLC

\* ------------------------------------------------------------------ bounds
MaxTodos   == 2   \* rows the table may hold
MaxTime    == 4   \* store writes of concurrently served requests (a write gets the next clock value)
MaxSeqTime == 3   \* store writes of requests served one at a time
MaxHttpTime == 3   \* store writes of HTTP requests
MaxFailTime == 3   \* store writes of requests served while store calls may fail
MaxDueTime == 3   \* store writes of two callers at a time that set due dates
MaxShutdownTime == 2   \* store writes of the requests a server process serves before it exits

\* ----------------------------------------------------------- input domains
Procs == {"r1", "r2", "r3"}                 \* request goroutines served at the same time
Ids == 1..MaxTodos                    \* requested ids (an id not yet assigned is requested too)

\* ------------------------------------------------------------ model.Priority
PriorityLow    == "low"
PriorityMedium == "medium"
PriorityHigh   == "high"
PriorityUrgent == "urgent"

\* variant: every string is accepted
IsValid_NoCheck(p) == TRUE

IsValid(p) == p \in {PriorityLow, PriorityMedium, PriorityHigh, PriorityUrgent}

\* priority strings a caller may send: the four members, the empty string
\* and a string outside the enumeration
PriorityInputs == {PriorityLow, PriorityMedium, PriorityHigh, PriorityUrgent, "", "invalid"}

\* --------------------------------------------------------- request shapes
Opt(S) == {<<>>} \cup {<<v>> : v \in S}

\* model.TodoCreateRequest values sent when requests are served one at a time
TodoCreateRequest ==
  [Title : {"a"}, Description : {""}, Priority : PriorityInputs, DueDate : {<<>>, <<1>>}]

\* model.TodoUpdateRequest values sent when requests are served one at a time:
\* every field is absent or present, independently of the others
TodoUpdateRequest ==
  [Title : Opt({"b"}), Description : Opt({"d"}), Completed : Opt(BOOLEAN),
   Priority : Opt({PriorityHigh, "invalid"}), DueDate : {<<>>, <<2>>}]

EmptyUpdate ==
  [Title |-> <<>>, Description |-> <<>>, Completed |-> <<>>, Priority |-> <<>>, DueDate |-> <<>>]

\* the requests sent by concurrently served callers
CreateInputs ==
  {[Title |-> "a", Description |-> "", Priority |-> "", DueDate |-> <<>>]}

UpdateInputs ==
  {[EmptyUpdate EXCEPT !.Title = <<"b">>],
   [EmptyUpdate EXCEPT !.Completed = <<TRUE>>]}

\* no request has been answered
NoResponse == [binding |-> "none", code |-> 0]

\* the zero value of model.Todo
NoTodo ==
  [ID |-> 0, Title |-> "", Description |-> "", Completed |-> FALSE, Priority |-> "",
   DueDate |-> <<>>, CreatedAt |-> 0, UpdatedAt |-> 0, DeletedAt |-> <<>>]

VARIABLES
  todos,    \* the todos table: todos[i] is the row with primary key i
  now,      \* the store clock: the timestamp of the latest write
  pc,       \* per request: "idle", "update_fetched" or "delete_fetched"
  arg,      \* per request: the id the pending UpdateTodo / DeleteTodo was called with
  local,    \* per request: the Todo struct fetched by the pending UpdateTodo
  result,   \* what the service call that returned in the latest step returned
  beaten,   \* history, per request: a DeleteTodo of the same id has returned success
            \* since this request's pending DeleteTodo fetched the entity
  http,     \* per request: the server that serves it and the status code it answered with
  main      \* the server process: where its main goroutine is, and what it has closed

vars == <<todos, now, pc, arg, local, result, beaten, http, main>>

\* An error text is the sequence of its words. The texts of the source are
\* Japanese; they are written here in Latin letters, word by word, and the
\* word "mitsukarimasen" ("is not found") is the one the handlers look for.
ErrNotFound(id) == <<"ID", ToString(id), "no", "Todo", "ga", "mitsukarimasen">>

ErrInvalidPriority(priority) == <<"mukou", "na", "yuusendo", "desu:", priority>>

ErrAlreadyDeleted(id) ==
  <<"ID", ToString(id), "no", "Todo", "wa", "sudeni", "sakujo", "sarete", "imasu">>

NoResult == [op |-> "none", id |-> 0, status |-> "none", todo |-> NoTodo, err |-> <<>>]

Return(op, id, status, todo) ==
  [op |-> op, id |-> id, status |-> status, todo |-> todo, err |-> <<>>]

\* the return of a call that failed: err is the text of the error, status its kind
ReturnError(op, id, status, err) ==
  [op |-> op, id |-> id, status |-> status, todo |-> NoTodo, err |-> err]

\* ------------------------------------------------------------ store (GORM)
Exists(id) == id \in 1..Len(todos)

\* the soft-delete predicate GORM adds to every query and update of a model
\* with a gorm.DeletedAt field: deleted_at IS NULL
Live(id) == Exists(id) /\ todos[id].DeletedAt = <<>>

LiveIds == {id \in 1..Len(todos) : Live(id)}

\* variant: the query is not scoped to deleted_at IS NULL
First_Unscoped(id) == IF Exists(id) THEN <<todos[id]>> ELSE <<>>

\* db.First(&todo, id): the live row with that primary key, or ErrRecordNotFound
First(id) == IF Live(id) THEN <<todos[id]>> ELSE <<>>

\* GetTodoByID: <<todo>>, or <<>> for the "not found" error
GetTodoByID(id) == First(id)

\* variant: the id of a soft-deleted row is given out again
DbCreate_ReusesId(todo, t) ==
  Append(todos, [todo EXCEPT !.ID = Cardinality(LiveIds) + 1, !.CreatedAt = t,
                             !.UpdatedAt = t])

\* db.Create(todo): INSERT; the store assigns the id and both timestamps
DbCreate(todo, t) ==
  Append(todos, [todo EXCEPT !.ID = Len(todos) + 1, !.CreatedAt = t, !.UpdatedAt = t])

\* variant: Save stamps created_at as well
SaveRow_ResetsCreatedAt(row, todo, t) ==
  [todo EXCEPT !.UpdatedAt = t, !.CreatedAt = t]

\* db.Save(todo) of a struct with a non-zero primary key:
\*   UPDATE todos SET <all columns>, updated_at = t WHERE id = ? AND deleted_at IS NULL
\* and, when that affected no row,
\*   INSERT ... ON CONFLICT (id) DO UPDATE SET <all columns but id, created_at>
\* which writes the struct's deleted_at as well.
\* SaveRow is the row that results from the stored row and the saved struct.
SaveRow(row, todo, t) ==
  IF row.DeletedAt = <<>>
  THEN [todo EXCEPT !.UpdatedAt = t]
  ELSE [todo EXCEPT !.UpdatedAt = t, !.CreatedAt = row.CreatedAt]

DbSave(todo, t) == [todos EXCEPT ![todo.ID] = SaveRow(todos[todo.ID], todo, t)]

\* db.Delete(&model.Todo{}, id): UPDATE todos SET deleted_at = t
\*   WHERE id = ? AND deleted_at IS NULL; reports the rows affected
DbDeleteRows(id) == IF Live(id) THEN 1 ELSE 0

DbDelete(id, t) ==
  IF Live(id) THEN [todos EXCEPT ![id].DeletedAt = <<t>>] ELSE todos

\* ------------------------------------------------------------------ service
\* variant: an absent due date is written as NULL
ApplyUpdate_ClearsDueDate(todo, req) ==
  LET t1 == IF req.Title # <<>> THEN [todo EXCEPT !.Title = req.Title[1]] ELSE todo
      t2 == IF req.Description # <<>> THEN [t1 EXCEPT !.Description = req.Description[1]] ELSE t1
      t3 == IF req.Completed # <<>> THEN [t2 EXCEPT !.Completed = req.Completed[1]] ELSE t2
  IN  IF req.Priority # <<>> /\ ~IsValid(req.Priority[1])
      THEN <<>>
      ELSE LET t4 == IF req.Priority # <<>> THEN [t3 EXCEPT !.Priority = req.Priority[1]] ELSE t3
               t5 == [t4 EXCEPT !.DueDate = req.DueDate]
           IN  <<t5>>

\* variant: an absent title is written as the empty string
ApplyUpdate_ZeroAbsent(todo, req) ==
  LET t1 == [todo EXCEPT !.Title = IF req.Title # <<>> THEN req.Title[1] ELSE ""]
      t2 == IF req.Description # <<>> THEN [t1 EXCEPT !.Description = req.Description[1]] ELSE t1
      t3 == IF req.Completed # <<>> THEN [t2 EXCEPT !.Completed = req.Completed[1]] ELSE t2
  IN  IF req.Priority # <<>> /\ ~IsValid(req.Priority[1])
      THEN <<>>
      ELSE LET t4 == IF req.Priority # <<>> THEN [t3 EXCEPT !.Priority = req.Priority[1]] ELSE t3
               t5 == IF req.DueDate # <<>> THEN [t4 EXCEPT !.DueDate = req.DueDate] ELSE t4
           IN  <<t5>>

\* UpdateTodo, lines 98-116: apply the fields present in the request.
\* The result is <<todo>> or <<>> when the priority is rejected.
ApplyUpdate(todo, req) ==
  LET t1 == IF req.Title # <<>> THEN [todo EXCEPT !.Title = req.Title[1]] ELSE todo
      t2 == IF req.Description # <<>> THEN [t1 EXCEPT !.Description = req.Description[1]] ELSE t1
      t3 == IF req.Completed # <<>> THEN [t2 EXCEPT !.Completed = req.Completed[1]] ELSE t2
  IN  IF req.Priority # <<>> /\ ~IsValid(req.Priority[1])
      THEN <<>>
      ELSE LET t4 == IF req.Priority # <<>> THEN [t3 EXCEPT !.Priority = req.Priority[1]] ELSE t3
               t5 == IF req.DueDate # <<>> THEN [t4 EXCEPT !.DueDate = req.DueDate] ELSE t4
           IN  <<t5>>

\* ORDER BY on the varchar column priority compares the stored strings:
\* "high" < "low" < "medium" < "urgent"
StringRank(p) ==
  CASE p = PriorityHigh -> 1 [] p = PriorityLow -> 2 [] p = PriorityMedium -> 3
    [] p = PriorityUrgent -> 4 [] OTHER -> 0

\* the ORDER BY clause: whether row a sorts ahead of row b
Order(by, a, b) ==
  CASE by = "created_at DESC" -> a.CreatedAt > b.CreatedAt
    [] by = "updated_at DESC" -> a.UpdatedAt > b.UpdatedAt
    [] by = "priority DESC, created_at DESC" ->
         \/ StringRank(a.Priority) > StringRank(b.Priority)
         \/ StringRank(a.Priority) = StringRank(b.Priority) /\ a.CreatedAt > b.CreatedAt

\* db.Where(...).Order(by).Find(&todos): the rows with ids in S (all live), in that order
Find(S, by) ==
  LET n == Cardinality(S)
      ord == CHOOSE s \in [1..n -> S] :
               \A i, j \in 1..n : i < j => (s[i] # s[j] /\ Order(by, todos[s[i]], todos[s[j]]))
  IN  [i \in 1..n |-> todos[ord[i]]]

\* variant: ordered by the time of the last write
GetAllTodos_ByUpdatedAt == Find(LiveIds, "updated_at DESC")

GetAllTodos == Find(LiveIds, "created_at DESC")

\* variant: ordered by the time of the last write
GetTodosByPriority_ByUpdatedAt(priority) ==
  IF ~IsValid(priority) THEN <<>>
  ELSE <<Find({id \in LiveIds : todos[id].Priority = priority}, "updated_at DESC")>>

\* <<list>>, or <<>> for the validation error
GetTodosByPriority(priority) ==
  IF ~IsValid(priority) THEN <<>>
  ELSE <<Find({id \in LiveIds : todos[id].Priority = priority}, "created_at DESC")>>

GetCompletedTodos == Find({id \in LiveIds : todos[id].Completed = TRUE}, "updated_at DESC")

\* variant: the completed = false condition is missing
GetPendingTodos_Unfiltered ==
  Find(LiveIds, "priority DESC, created_at DESC")

GetPendingTodos ==
  Find({id \in LiveIds : todos[id].Completed = FALSE}, "priority DESC, created_at DESC")

\* main after it has started to serve: it waits for a signal, the listener is open
\* and so is the store connection (db.Connect)
Serving(server) ==
  [server |-> server, at |-> "serving", listening |-> TRUE, db |-> "open", expired |-> FALSE]

\* an empty table and no request in progress
InitService ==
  /\ todos = <<>>
  /\ now = 0
  /\ pc = [p \in Procs |-> "idle"]
  /\ arg = [p \in Procs |-> 0]
  /\ local = [p \in Procs |-> NoTodo]
  /\ result = NoResult
  /\ beaten = [p \in Procs |-> FALSE]
  /\ http = [p \in Procs |-> NoResponse]

\* the service with its store open; the process around it stays as it is
Init ==
  /\ InitService
  /\ main = Serving("any")

\* variant: the default is another member
DefaultPriority_WrongMember(priority) == IF priority = "" THEN PriorityLow ELSE priority

\* CreateTodo, lines 69-72: the default priority
DefaultPriority(priority) == IF priority = "" THEN PriorityMedium ELSE priority

\* variant: the new struct is marked completed
NewTodo_Completed(req) ==
  [NoTodo EXCEPT !.Title = req.Title, !.Description = req.Description,
                 !.Priority = DefaultPriority(req.Priority), !.DueDate = req.DueDate,
                 !.Completed = TRUE]

\* CreateTodo, lines 74-80: the struct handed to db.Create
NewTodo(req) ==
  [NoTodo EXCEPT !.Title = req.Title, !.Description = req.Description,
                 !.Priority = DefaultPriority(req.Priority), !.DueDate = req.DueDate,
                 !.Completed = FALSE]

\* variant: the priority is not validated
CreateTodo_NoValidation(p, req) ==
  /\ pc[p] = "idle"
  /\ Len(todos) < MaxTodos
  /\ todos' = DbCreate(NewTodo(req), now + 1)
  /\ now' = now + 1
  /\ result' = Return("create", Len(todos'), "OK", todos'[Len(todos')])
  /\ UNCHANGED <<pc, arg, local, beaten>>

\* CreateTodo, lines 63-88
CreateTodo(p, req) ==
  /\ pc[p] = "idle"
  /\ IF req.Priority # "" /\ ~IsValid(req.Priority)
     THEN /\ result' = ReturnError("create", 0, "ValidationError",
                                   ErrInvalidPriority(req.Priority))
          /\ UNCHANGED <<todos, now>>
     ELSE /\ Len(todos) < MaxTodos
          /\ todos' = DbCreate(NewTodo(req), now + 1)
          /\ now' = now + 1
          /\ result' = Return("create", Len(todos'), "OK", todos'[Len(todos')])
  /\ UNCHANGED <<pc, arg, local, beaten>>

\* UpdateTodo, lines 93-96: todo, err := s.GetTodoByID(id)
UpdateFetch(p, id) ==
  /\ pc[p] = "idle"
  /\ IF GetTodoByID(id) = <<>>
     THEN /\ result' = ReturnError("update", id, "NotFound", ErrNotFound(id))
          /\ UNCHANGED <<pc, arg, local>>
     ELSE /\ pc' = [pc EXCEPT ![p] = "update_fetched"]
          /\ arg' = [arg EXCEPT ![p] = id]
          /\ local' = [local EXCEPT ![p] = GetTodoByID(id)[1]]
          /\ result' = NoResult
  /\ UNCHANGED <<todos, now, beaten>>

\* variant: the request is merged into the row as it is stored at the save
UpdateSave_MergesStored(p, req) ==
  /\ pc[p] = "update_fetched"
  /\ IF ApplyUpdate(todos[arg[p]], req) = <<>>
     THEN /\ result' = ReturnError("update", arg[p], "ValidationError",
                                   ErrInvalidPriority(req.Priority[1]))
          /\ UNCHANGED <<todos, now>>
     ELSE /\ todos' = DbSave(ApplyUpdate(todos[arg[p]], req)[1], now + 1)
          /\ now' = now + 1
          /\ result' = Return("update", arg[p], "OK",
                              [ApplyUpdate(todos[arg[p]], req)[1] EXCEPT !.UpdatedAt = now + 1])
  /\ pc' = [pc EXCEPT ![p] = "idle"]
  /\ arg' = [arg EXCEPT ![p] = 0]
  /\ local' = [local EXCEPT ![p] = NoTodo]
  /\ UNCHANGED beaten

\* UpdateTodo, lines 98-123: merge the request into the fetched struct and Save it.
\* The request is the call's argument; it is first read here.
UpdateSave(p, req) ==
  /\ pc[p] = "update_fetched"
  /\ IF ApplyUpdate(local[p], req) = <<>>
     THEN /\ result' = ReturnError("update", arg[p], "ValidationError",
                                   ErrInvalidPriority(req.Priority[1]))
          /\ UNCHANGED <<todos, now>>
     ELSE /\ todos' = DbSave(ApplyUpdate(local[p], req)[1], now + 1)
          /\ now' = now + 1
          /\ result' = Return("update", arg[p], "OK",
                              [ApplyUpdate(local[p], req)[1] EXCEPT !.UpdatedAt = now + 1])
  /\ pc' = [pc EXCEPT ![p] = "idle"]
  /\ arg' = [arg EXCEPT ![p] = 0]
  /\ local' = [local EXCEPT ![p] = NoTodo]
  /\ UNCHANGED beaten

\* DeleteTodo, lines 129-132: _, err := s.GetTodoByID(id)
DeleteFetch(p, id) ==
  /\ pc[p] = "idle"
  /\ IF GetTodoByID(id) = <<>>
     THEN /\ result' = ReturnError("delete", id, "NotFound", ErrNotFound(id))
          /\ UNCHANGED <<pc, arg>>
     ELSE /\ pc' = [pc EXCEPT ![p] = "delete_fetched"]
          /\ arg' = [arg EXCEPT ![p] = id]
          /\ result' = NoResult
  /\ UNCHANGED <<todos, now, local, beaten>>

\* DeleteTodo, lines 134-143: db.Delete and the RowsAffected test
DeleteExec(p) ==
  /\ pc[p] = "delete_fetched"
  /\ IF DbDeleteRows(arg[p]) = 0
     THEN /\ result' = ReturnError("delete", arg[p], "AlreadyDeleted",
                                   ErrAlreadyDeleted(arg[p]))
          /\ beaten' = [beaten EXCEPT ![p] = FALSE]
          /\ UNCHANGED <<todos, now>>
     ELSE /\ todos' = DbDelete(arg[p], now + 1)
          /\ now' = now + 1
          /\ result' = Return("delete", arg[p], "OK", NoTodo)
          /\ beaten' = [q \in Procs |->
                          /\ q # p
                          /\ (beaten[q] \/ (pc[q] = "delete_fetched" /\ arg[q] = arg[p]))]
  /\ pc' = [pc EXCEPT ![p] = "idle"]
  /\ arg' = [arg EXCEPT ![p] = 0]
  /\ UNCHANGED local

\* ----------------------------------------------------------------- handlers
\* Two servers exist for the one service: app/main.go routes gorilla/mux requests
\* to TodoHandler, the other main registers HumaTodoHandler with Huma.
\* A handler that calls UpdateTodo or DeleteTodo takes two steps, as the service does.

\* the word the handlers look for in an error text to tell "not found"
NotFoundWord == "mitsukarimasen"

\* strings.Contains(s, substr), for a substr of one word
Contains(s, substr) == \E i \in 1..Len(s) : s[i] = substr

\* strings.TrimSpace(s), for the titles that are sent
TrimSpace(s) == IF s = " " THEN "" ELSE s

\* requests sent over HTTP: a title that is empty or blank, a priority outside the
\* enumeration, one of them the word the handlers look for
HttpPriorityInputs == {"", "invalid", NotFoundWord}

HttpCreateInputs ==
  [Title : {"a", "", " "}, Description : {""}, Priority : HttpPriorityInputs,
   DueDate : {<<>>}]

HttpUpdateInputs ==
  {[EmptyUpdate EXCEPT !.Title = t, !.Priority = pr, !.Completed = c] :
     t \in Opt({"b", ""}), pr \in Opt({"invalid", NotFoundWord}), c \in Opt({TRUE})}

\* the query parameters priority and completed of GET /api/v1/todos
QueryPriorityInputs == {"", PriorityMedium, "invalid"}

QueryCompletedInputs == {"", "true", "false", "x"}

Respond(p, binding, code) == http' = [http EXCEPT ![p] = [binding |-> binding, code |-> code]]

\* the status code TodoHandler answers a service error with
TodoHandler_ErrorCode(op, err) ==
  CASE op = "list" -> 500
    [] op = "get" -> IF Contains(err, NotFoundWord) THEN 404 ELSE 500
    [] op = "create" -> 400
    [] op = "update" -> IF Contains(err, NotFoundWord) THEN 404 ELSE 400
    [] op = "delete" -> IF Contains(err, NotFoundWord) THEN 404 ELSE 500

\* the service's return for a list request, as the handlers write it
ReturnList(r) ==
  IF ~r.called THEN NoResult
  ELSE IF r.err # <<>> THEN ReturnError("list", 0, "ValidationError", r.err)
  ELSE Return("list", 0, "OK", NoTodo)

\* TodoHandler.GetAllTodos, what it answers: the status code and the list in the
\* body; called is whether it reached the service, err the service's error
TodoHandler_GetAllTodos_Response(priority, completed) ==
  IF priority # ""
  THEN IF GetTodosByPriority(priority) = <<>>
       THEN [code |-> TodoHandler_ErrorCode("list", ErrInvalidPriority(priority)),
             data |-> <<>>, called |-> TRUE, err |-> ErrInvalidPriority(priority)]
       ELSE [code |-> 200, data |-> GetTodosByPriority(priority)[1],
             called |-> TRUE, err |-> <<>>]
  ELSE IF completed # ""
       THEN IF completed = "true"
            THEN [code |-> 200, data |-> GetCompletedTodos, called |-> TRUE, err |-> <<>>]
            ELSE IF completed = "false"
                 THEN [code |-> 200, data |-> GetPendingTodos, called |-> TRUE, err |-> <<>>]
                 ELSE [code |-> 400, data |-> <<>>, called |-> FALSE, err |-> <<>>]
       ELSE [code |-> 200, data |-> GetAllTodos, called |-> TRUE, err |-> <<>>]

\* TodoHandler.GetAllTodos
TodoHandler_GetAllTodos(p, priority, completed) ==
  /\ pc[p] = "idle"
  /\ result' = ReturnList(TodoHandler_GetAllTodos_Response(priority, completed))
  /\ Respond(p, "mux", TodoHandler_GetAllTodos_Response(priority, completed).code)
  /\ UNCHANGED <<todos, now, pc, arg, local, beaten>>

\* TodoHandler.GetTodoByID
TodoHandler_GetTodoByID(p, id) ==
  /\ pc[p] = "idle"
  /\ IF GetTodoByID(id) = <<>>
     THEN /\ result' = ReturnError("get", id, "NotFound", ErrNotFound(id))
          /\ Respond(p, "mux", TodoHandler_ErrorCode("get", result'.err))
     ELSE /\ result' = Return("get", id, "OK", GetTodoByID(id)[1])
          /\ Respond(p, "mux", 200)
  /\ UNCHANGED <<todos, now, pc, arg, local, beaten>>

\* TodoHandler.CreateTodo
TodoHandler_CreateTodo(p, req) ==
  IF TrimSpace(req.Title) = ""
  THEN /\ pc[p] = "idle"
       /\ result' = NoResult
       /\ Respond(p, "mux", 400)
       /\ UNCHANGED <<todos, now, pc, arg, local, beaten>>
  ELSE /\ CreateTodo(p, req)
       /\ Respond(p, "mux", IF result'.status = "OK" THEN 201
                            ELSE TodoHandler_ErrorCode("create", result'.err))

\* TodoHandler.UpdateTodo up to the service's fetch
TodoHandler_UpdateFetch(p, id) ==
  /\ UpdateFetch(p, id)
  /\ Respond(p, "mux", IF result'.status = "NotFound"
                       THEN TodoHandler_ErrorCode("update", result'.err) ELSE 0)

\* TodoHandler.UpdateTodo from the service's save on
TodoHandler_UpdateSave(p, req) ==
  /\ http[p].binding = "mux"
  /\ UpdateSave(p, req)
  /\ Respond(p, "mux", IF result'.status = "OK" THEN 200
                       ELSE TodoHandler_ErrorCode("update", result'.err))

\* TodoHandler.DeleteTodo up to the service's fetch
TodoHandler_DeleteFetch(p, id) ==
  /\ DeleteFetch(p, id)
  /\ Respond(p, "mux", IF result'.status = "NotFound"
                       THEN TodoHandler_ErrorCode("delete", result'.err) ELSE 0)

\* TodoHandler.DeleteTodo from the service's db.Delete on
TodoHandler_DeleteExec(p) ==
  /\ http[p].binding = "mux"
  /\ DeleteExec(p)
  /\ Respond(p, "mux", IF result'.status = "OK" THEN 200
                       ELSE TodoHandler_ErrorCode("delete", result'.err))

\* the status code HumaTodoHandler answers a service error with: "not found" is
\* an error text equal to the handler's own fmt.Sprintf of the text for input.ID
HumaTodoHandler_ErrorCode(op, id, err) ==
  CASE op = "list" -> 500
    [] op = "get" -> IF err = ErrNotFound(id) THEN 404 ELSE 500
    [] op = "create" -> 400
    [] op = "update" -> IF err = ErrNotFound(id) THEN 404 ELSE 400
    [] op = "delete" -> IF err = ErrNotFound(id) THEN 404 ELSE 500

\* HumaTodoHandler.GetAllTodos, what it answers. TodoQueryRequest declares
\* enum:"low,medium,high,urgent" for priority: Huma answers a present value outside
\* it with 422 and does not call the handler.
HumaTodoHandler_GetAllTodos_Response(priority, completed) ==
  IF priority # "" /\ priority \notin {"low", "medium", "high", "urgent"}
  THEN [code |-> 422, data |-> <<>>, called |-> FALSE, err |-> <<>>]
  ELSE IF priority # ""
  THEN IF GetTodosByPriority(priority) = <<>>
       THEN [code |-> HumaTodoHandler_ErrorCode("list", 0, ErrInvalidPriority(priority)),
             data |-> <<>>, called |-> TRUE, err |-> ErrInvalidPriority(priority)]
       ELSE [code |-> 200, data |-> GetTodosByPriority(priority)[1],
             called |-> TRUE, err |-> <<>>]
  ELSE IF completed = "true"
       THEN [code |-> 200, data |-> GetCompletedTodos, called |-> TRUE, err |-> <<>>]
       ELSE IF completed = "false"
            THEN [code |-> 200, data |-> GetPendingTodos, called |-> TRUE, err |-> <<>>]
            ELSE [code |-> 200, data |-> GetAllTodos, called |-> TRUE, err |-> <<>>]

\* HumaTodoHandler.GetAllTodos
HumaTodoHandler_GetAllTodos(p, priority, completed) ==
  /\ pc[p] = "idle"
  /\ result' = ReturnList(HumaTodoHandler_GetAllTodos_Response(priority, completed))
  /\ Respond(p, "huma", HumaTodoHandler_GetAllTodos_Response(priority, completed).code)
  /\ UNCHANGED <<todos, now, pc, arg, local, beaten>>

\* HumaTodoHandler.GetTodoByID
HumaTodoHandler_GetTodoByID(p, id) ==
  /\ pc[p] = "idle"
  /\ IF GetTodoByID(id) = <<>>
     THEN /\ result' = ReturnError("get", id, "NotFound", ErrNotFound(id))
          /\ Respond(p, "huma", HumaTodoHandler_ErrorCode("get", id, result'.err))
     ELSE /\ result' = Return("get", id, "OK", GetTodoByID(id)[1])
          /\ Respond(p, "huma", 200)
  /\ UNCHANGED <<todos, now, pc, arg, local, beaten>>

\* HumaTodoHandler.CreateTodo; the operation is registered with DefaultStatus 201
HumaTodoHandler_CreateTodo(p, req) ==
  /\ CreateTodo(p, req)
  /\ Respond(p, "huma", IF result'.status = "OK" THEN 201
                        ELSE HumaTodoHandler_ErrorCode("create", 0, result'.err))

\* HumaTodoHandler.UpdateTodo up to the service's fetch
HumaTodoHandler_UpdateFetch(p, id) ==
  /\ UpdateFetch(p, id)
  /\ Respond(p, "huma", IF result'.status = "NotFound"
                        THEN HumaTodoHandler_ErrorCode("update", id, result'.err) ELSE 0)

\* HumaTodoHandler.UpdateTodo from the service's save on
HumaTodoHandler_UpdateSave(p, req) ==
  /\ http[p].binding = "huma"
  /\ UpdateSave(p, req)
  /\ Respond(p, "huma", IF result'.status = "OK" THEN 200
                        ELSE HumaTodoHandler_ErrorCode("update", arg[p], result'.err))

\* HumaTodoHandler.DeleteTodo up to the service's fetch
HumaTodoHandler_DeleteFetch(p, id) ==
  /\ DeleteFetch(p, id)
  /\ Respond(p, "huma", IF result'.status = "NotFound"
                        THEN HumaTodoHandler_ErrorCode("delete", id, result'.err) ELSE 0)

\* HumaTodoHandler.DeleteTodo from the service's db.Delete on
HumaTodoHandler_DeleteExec(p) ==
  /\ http[p].binding = "huma"
  /\ DeleteExec(p)
  /\ Respond(p, "huma", IF result'.status = "OK" THEN 200
                        ELSE HumaTodoHandler_ErrorCode("delete", arg[p], result'.err))

\* the service is called directly, by concurrent callers: the steps of different
\* calls interleave
Next ==
  \/ \E p \in Procs, req \in CreateInputs :
       CreateTodo(p, req) /\ now' <= MaxTime /\ UNCHANGED <<http, main>>
  \/ \E p \in Procs, id \in Ids : UpdateFetch(p, id) /\ UNCHANGED <<http, main>>
  \/ \E p \in Procs, req \in UpdateInputs :
       UpdateSave(p, req) /\ now' <= MaxTime /\ UNCHANGED <<http, main>>
  \/ \E p \in Procs, id \in Ids : DeleteFetch(p, id) /\ UNCHANGED <<http, main>>
  \/ \E p \in Procs : DeleteExec(p) /\ now' <= MaxTime /\ UNCHANGED <<http, main>>

Spec == Init /\ [][Next]_vars

\* the service is called directly, one call at a time: a call returns before the
\* next one starts
NextSeq ==
  \/ \E req \in TodoCreateRequest :
       CreateTodo("r1", req) /\ now' <= MaxSeqTime /\ UNCHANGED <<http, main>>
  \/ \E id \in Ids : UpdateFetch("r1", id) /\ UNCHANGED <<http, main>>
  \/ \E req \in TodoUpdateRequest :
       UpdateSave("r1", req) /\ now' <= MaxSeqTime /\ UNCHANGED <<http, main>>
  \/ \E id \in Ids : DeleteFetch("r1", id) /\ UNCHANGED <<http, main>>
  \/ DeleteExec("r1") /\ now' <= MaxSeqTime /\ UNCHANGED <<http, main>>

SpecSeq == Init /\ [][NextSeq]_vars

\* requests come over HTTP, to either server, and are served one at a time
NextHttp ==
  \/ \E pr \in QueryPriorityInputs, c \in QueryCompletedInputs :
       TodoHandler_GetAllTodos("r1", pr, c) /\ UNCHANGED main
  \/ \E id \in Ids : TodoHandler_GetTodoByID("r1", id) /\ UNCHANGED main
  \/ \E req \in HttpCreateInputs : TodoHandler_CreateTodo("r1", req) /\ now' <= MaxHttpTime /\ UNCHANGED main
  \/ \E id \in Ids : TodoHandler_UpdateFetch("r1", id) /\ UNCHANGED main
  \/ \E req \in HttpUpdateInputs : TodoHandler_UpdateSave("r1", req) /\ now' <= MaxHttpTime /\ UNCHANGED main
  \/ \E id \in Ids : TodoHandler_DeleteFetch("r1", id) /\ UNCHANGED main
  \/ TodoHandler_DeleteExec("r1") /\ now' <= MaxHttpTime /\ UNCHANGED main
  \/ \E pr \in QueryPriorityInputs, c \in QueryCompletedInputs :
       HumaTodoHandler_GetAllTodos("r1", pr, c) /\ UNCHANGED main
  \/ \E id \in Ids : HumaTodoHandler_GetTodoByID("r1", id) /\ UNCHANGED main
  \/ \E req \in HttpCreateInputs : HumaTodoHandler_CreateTodo("r1", req) /\ now' <= MaxHttpTime /\ UNCHANGED main
  \/ \E id \in Ids : HumaTodoHandler_UpdateFetch("r1", id) /\ UNCHANGED main
  \/ \E req \in HttpUpdateInputs : HumaTodoHandler_UpdateSave("r1", req) /\ now' <= MaxHttpTime /\ UNCHANGED main
  \/ \E id \in Ids : HumaTodoHandler_DeleteFetch("r1", id) /\ UNCHANGED main
  \/ HumaTodoHandler_DeleteExec("r1") /\ now' <= MaxHttpTime /\ UNCHANGED main

SpecHttp == Init /\ [][NextHttp]_vars

\* --------------------------------------------------------------------- main
\* The two servers' main functions from the wait for a signal on. A request is
\* in progress when its goroutine is inside a service call (pc is not "idle").

\* the text of the error of a store call on a closed connection, after the
\* service has wrapped it
ErrFetchFailed ==
  <<"Todo", "no", "shutoku", "ni", "shippai", "shimashita:", "sql: database is closed">>

ErrUpdateFailed ==
  <<"Todo", "no", "koushin", "ni", "shippai", "shimashita:", "sql: database is closed">>

\* db.Close()
Close(m) == [m EXCEPT !.db = "closed"]

\* <-quit: SIGINT or SIGTERM arrives
Main_Quit ==
  /\ main.at = "serving"
  /\ main' = [main EXCEPT !.at = "quit"]
  /\ UNCHANGED <<todos, now, pc, arg, local, result, beaten, http>>

\* app/main.go: db.Close() is the next statement after the signal; the goroutine
\* that runs http.ListenAndServe is left as it is
Main_Close ==
  /\ main.server = "mux" /\ main.at = "quit"
  /\ main' = [Close(main) EXCEPT !.at = "closed"]
  /\ UNCHANGED <<todos, now, pc, arg, local, result, beaten, http>>

\* the Huma main: server.Shutdown(ctx) closes the listener and starts to wait
HumaMain_Shutdown ==
  /\ main.server = "huma" /\ main.at = "quit"
  /\ main' = [main EXCEPT !.at = "shutdown", !.listening = FALSE]
  /\ UNCHANGED <<todos, now, pc, arg, local, result, beaten, http>>

\* the 30 seconds of ctx pass while a request is still in progress
HumaMain_ContextExpires ==
  /\ main.server = "huma" /\ main.at = "shutdown" /\ ~main.expired
  /\ \E p \in Procs : pc[p] # "idle"
  /\ main' = [main EXCEPT !.expired = TRUE]
  /\ UNCHANGED <<todos, now, pc, arg, local, result, beaten, http>>

\* server.Shutdown returns: no request is in progress, or ctx is done
HumaMain_ShutdownReturns ==
  /\ main.server = "huma" /\ main.at = "shutdown"
  /\ main.expired \/ \A p \in Procs : pc[p] = "idle"
  /\ main' = [main EXCEPT !.at = "drained"]
  /\ UNCHANGED <<todos, now, pc, arg, local, result, beaten, http>>

\* the Huma main: db.Close() after server.Shutdown has returned
HumaMain_Close ==
  /\ main.server = "huma" /\ main.at = "drained"
  /\ main' = [Close(main) EXCEPT !.at = "closed"]
  /\ UNCHANGED <<todos, now, pc, arg, local, result, beaten, http>>

\* main returns and the process ends, with every goroutine it has
Main_Exit ==
  /\ main.at = "closed"
  /\ main' = [main EXCEPT !.at = "exited", !.listening = FALSE]
  /\ UNCHANGED <<todos, now, pc, arg, local, result, beaten, http>>

\* UpdateTodo, lines 93-96, on a closed connection: GetTodoByID returns the store's
\* error
UpdateFetch_StoreClosed(p, id) ==
  /\ pc[p] = "idle"
  /\ result' = ReturnError("update", id, "StoreError", ErrFetchFailed)
  /\ UNCHANGED <<todos, now, pc, arg, local, beaten, http, main>>

\* UpdateTodo, lines 118-121, on a closed connection: Save returns the store's error
UpdateSave_StoreClosed(p) ==
  /\ pc[p] = "update_fetched"
  /\ result' = ReturnError("update", arg[p], "StoreError", ErrUpdateFailed)
  /\ pc' = [pc EXCEPT ![p] = "idle"]
  /\ arg' = [arg EXCEPT ![p] = 0]
  /\ local' = [local EXCEPT ![p] = NoTodo]
  /\ UNCHANGED <<todos, now, beaten, http, main>>

\* a new request is accepted: the process runs and its listener is open
Accepting == main.listening /\ main.at # "exited"

\* a server process from its start to its exit, with requests served concurrently
InitShutdown ==
  /\ InitService
  /\ main \in {Serving("mux"), Serving("huma")}

NextShutdown ==
  \/ \E p \in Procs, req \in CreateInputs :
       /\ Accepting /\ main.db = "open"
       /\ CreateTodo(p, req) /\ now' <= MaxShutdownTime /\ UNCHANGED <<http, main>>
  \/ \E p \in Procs, id \in Ids :
       /\ Accepting /\ main.db = "open"
       /\ UpdateFetch(p, id) /\ UNCHANGED <<http, main>>
  \/ \E p \in Procs, id \in Ids :
       /\ Accepting /\ main.db = "closed"
       /\ UpdateFetch_StoreClosed(p, id)
  \/ \E p \in Procs, req \in UpdateInputs :
       /\ main.at # "exited" /\ main.db = "open"
       /\ UpdateSave(p, req) /\ now' <= MaxShutdownTime /\ UNCHANGED <<http, main>>
  \/ \E p \in Procs :
       /\ main.at # "exited" /\ main.db = "closed"
       /\ UpdateSave_StoreClosed(p)
  \/ Main_Quit
  \/ Main_Close
  \/ HumaMain_Shutdown
  \/ HumaMain_ContextExpires
  \/ HumaMain_ShutdownReturns
  \/ HumaMain_Close
  \/ Main_Exit

SpecShutdown == InitShutdown /\ [][NextShutdown]_vars

\* ----------------------------------------------------------- store failures
\* A store call may fail (result.Error is set). A statement that fails changes no
\* row. The service wraps the store's error text e in a text of its own.
StoreErrors == {"connection refused"}

\* fmt.Errorf("Todo no <operation> ni shippai shimashita: %w", result.Error)
ErrWrapped(operation, e) ==
  <<"Todo", "no", operation, "ni", "shippai", "shimashita:", e>>

\* CreateTodo, lines 82-85: db.Create fails
CreateTodo_StoreError(p, req, e) ==
  /\ pc[p] = "idle"
  /\ req.Priority = "" \/ IsValid(req.Priority)
  /\ result' = ReturnError("create", 0, "StoreError", ErrWrapped("sakusei", e))
  /\ UNCHANGED <<todos, now, pc, arg, local, beaten>>

\* UpdateTodo, lines 93-96: GetTodoByID fails with an error other than not-found
UpdateFetch_StoreError(p, id, e) ==
  /\ pc[p] = "idle"
  /\ result' = ReturnError("update", id, "StoreError", ErrWrapped("shutoku", e))
  /\ UNCHANGED <<todos, now, pc, arg, local, beaten>>

\* variant: the row is written although Save reports an error
UpdateSave_StoreError_Written(p, req, e) ==
  /\ pc[p] = "update_fetched"
  /\ ApplyUpdate(local[p], req) # <<>>
  /\ todos' = DbSave(ApplyUpdate(local[p], req)[1], now + 1)
  /\ now' = now + 1
  /\ result' = ReturnError("update", arg[p], "StoreError", ErrWrapped("koushin", e))
  /\ pc' = [pc EXCEPT ![p] = "idle"]
  /\ arg' = [arg EXCEPT ![p] = 0]
  /\ local' = [local EXCEPT ![p] = NoTodo]
  /\ UNCHANGED beaten

\* UpdateTodo, lines 118-121: db.Save fails
UpdateSave_StoreError(p, req, e) ==
  /\ pc[p] = "update_fetched"
  /\ ApplyUpdate(local[p], req) # <<>>
  /\ result' = ReturnError("update", arg[p], "StoreError", ErrWrapped("koushin", e))
  /\ pc' = [pc EXCEPT ![p] = "idle"]
  /\ arg' = [arg EXCEPT ![p] = 0]
  /\ local' = [local EXCEPT ![p] = NoTodo]
  /\ UNCHANGED <<todos, now, beaten>>

\* DeleteTodo, lines 129-132: GetTodoByID fails with an error other than not-found
DeleteFetch_StoreError(p, id, e) ==
  /\ pc[p] = "idle"
  /\ result' = ReturnError("delete", id, "StoreError", ErrWrapped("shutoku", e))
  /\ UNCHANGED <<todos, now, pc, arg, local, beaten>>

\* DeleteTodo, lines 134-137: db.Delete fails
DeleteExec_StoreError(p, e) ==
  /\ pc[p] = "delete_fetched"
  /\ result' = ReturnError("delete", arg[p], "StoreError", ErrWrapped("sakujo", e))
  /\ pc' = [pc EXCEPT ![p] = "idle"]
  /\ arg' = [arg EXCEPT ![p] = 0]
  /\ beaten' = [beaten EXCEPT ![p] = FALSE]
  /\ UNCHANGED <<todos, now, local>>

\* the service is called directly, one call at a time, and any store call may fail
NextFail ==
  \/ \E req \in TodoCreateRequest :
       CreateTodo("r1", req) /\ now' <= MaxFailTime /\ UNCHANGED <<http, main>>
  \/ \E id \in Ids : UpdateFetch("r1", id) /\ UNCHANGED <<http, main>>
  \/ \E req \in UpdateInputs :
       UpdateSave("r1", req) /\ now' <= MaxFailTime /\ UNCHANGED <<http, main>>
  \/ \E id \in Ids : DeleteFetch("r1", id) /\ UNCHANGED <<http, main>>
  \/ DeleteExec("r1") /\ now' <= MaxFailTime /\ UNCHANGED <<http, main>>
  \/ \E req \in TodoCreateRequest, e \in StoreErrors :
       CreateTodo_StoreError("r1", req, e) /\ UNCHANGED <<http, main>>
  \/ \E id \in Ids, e \in StoreErrors :
       UpdateFetch_StoreError("r1", id, e) /\ UNCHANGED <<http, main>>
  \/ \E req \in UpdateInputs, e \in StoreErrors :
       UpdateSave_StoreError("r1", req, e) /\ UNCHANGED <<http, main>>
  \/ \E id \in Ids, e \in StoreErrors :
       DeleteFetch_StoreError("r1", id, e) /\ UNCHANGED <<http, main>>
  \/ \E e \in StoreErrors : DeleteExec_StoreError("r1", e) /\ UNCHANGED <<http, main>>

SpecFail == Init /\ [][NextFail]_vars

\* two callers at a time, one of them setting a due date
DueUpdateInputs ==
  {[EmptyUpdate EXCEPT !.DueDate = <<2>>],
   [EmptyUpdate EXCEPT !.Title = <<"b">>]}

NextDue ==
  \/ \E p \in {"r1", "r2"}, req \in CreateInputs :
       CreateTodo(p, req) /\ now' <= MaxDueTime /\ UNCHANGED <<http, main>>
  \/ \E p \in {"r1", "r2"}, id \in Ids : UpdateFetch(p, id) /\ UNCHANGED <<http, main>>
  \/ \E p \in {"r1", "r2"}, req \in DueUpdateInputs :
       UpdateSave(p, req) /\ now' <= MaxDueTime /\ UNCHANGED <<http, main>>

SpecDue == Init /\ [][NextDue]_vars

\* -------------------------------------------------------------- properties
\* the enumeration of the data model: {low, medium, high, urgent}
Enumeration == {"low", "medium", "high", "urgent"}

\* C1: a CreateTodo whose priority is non-empty and outside the enumeration, and an
\* UpdateTodo of a live id whose priority is present and outside the enumeration,
\* return a ValidationError and leave the table exactly as it was (no row added,
\* no field of any row changed, whatever else the request carries).
C1_InvalidPriorityRejected ==
  [][ /\ (pc["r1"] = "idle" /\ result'.op = "create")
          => \A req \in TodoCreateRequest :
               (req.Priority # "" /\ req.Priority \notin Enumeration /\ CreateTodo("r1", req))
                 => (result'.status = "ValidationError" /\ todos' = todos)
      /\ (pc["r1"] = "update_fetched")
          => \A req \in TodoUpdateRequest :
               (req.Priority # <<>> /\ req.Priority[1] \notin Enumeration /\ UpdateSave("r1", req))
                 => (result'.status = "ValidationError" /\ todos' = todos) ]_vars

\* an UpdateTodo of a live id has just been rejected for its priority
C1_Witness ==
  /\ result.op = "update" /\ result.status = "ValidationError"
  /\ Live(result.id)

\* C2: a CreateTodo with an empty priority persists a row, and returns an entity,
\* whose priority is "medium", whatever the other request fields are.
C2_EmptyPriorityIsMedium ==
  [][ \A req \in TodoCreateRequest :
        (req.Priority = "" /\ CreateTodo("r1", req))
          => /\ result'.status = "OK"
             /\ result'.todo.Priority = "medium"
             /\ Len(todos') = Len(todos) + 1
             /\ todos'[Len(todos')].Priority = "medium"
             /\ result'.id = Len(todos') ]_vars

\* a create has just returned an entity with the default priority and a due date
C2_Witness ==
  /\ result.op = "create" /\ result.status = "OK"
  /\ result.todo.Priority = "medium" /\ result.todo.DueDate # <<>>
  /\ todos[result.id] = result.todo

\* C3: every entity a CreateTodo persists and returns has Completed = false.
C3_CreatedNotCompleted ==
  (result.op = "create" /\ result.status = "OK")
    => (result.todo.Completed = FALSE /\ todos[result.id].Completed = FALSE)

\* a create has just persisted its second row
C3_Witness ==
  /\ result.op = "create" /\ result.status = "OK"
  /\ result.id = 2 /\ Live(2)

AppliedAgain(once, t) == SaveRow(once, ApplyUpdate(once, EmptyUpdate)[1], t)

\* C5 as stated: after an empty UpdateTodo of a live entity, applying the empty
\* update again yields the same entity state.
C5_EmptyUpdateIdempotent ==
  [][ (UpdateSave("r1", EmptyUpdate) /\ result'.status = "OK")
        => AppliedAgain(todos'[result'.id], now' + 1) = todos'[result'.id] ]_vars

\* C5 amended: after an empty UpdateTodo of a live entity, applying the empty update
\* again yields the same entity state in every field but UpdatedAt, which is refreshed.
C5_EmptyUpdateIdempotentButUpdatedAt ==
  [][ (UpdateSave("r1", EmptyUpdate) /\ result'.status = "OK")
        => AppliedAgain(todos'[result'.id], now' + 1)
             = [todos'[result'.id] EXCEPT !.UpdatedAt = now' + 1] ]_vars

\* an update has just returned and the stored entity still has every value it was
\* created with, under a later UpdatedAt
C5_Witness ==
  /\ result.op = "update" /\ result.status = "OK"
  /\ todos[result.id].Title = "a" /\ todos[result.id].Description = ""
  /\ todos[result.id].Completed = FALSE /\ todos[result.id].Priority = "medium"
  /\ todos[result.id].DueDate = <<>>
  /\ todos[result.id].UpdatedAt > todos[result.id].CreatedAt

\* the entities of a result list
Entities(list) == {list[i] : i \in 1..Len(list)}

\* the stored entity id is in none of the result lists
InNoList(id) ==
  /\ todos[id] \notin Entities(GetAllTodos)
  /\ todos[id] \notin Entities(GetCompletedTodos)
  /\ todos[id] \notin Entities(GetPendingTodos)
  /\ \A p \in Enumeration : todos[id] \notin Entities(GetTodosByPriority(p)[1])

\* C6: of two DeleteTodo calls in sequence on the id of a live entity, the first
\* returns success and the second the AlreadyDeleted error, and the row stays in
\* the table with its deleted-at marker set.
C6_SecondDeleteAlreadyDeleted ==
  [][ (result'.op = "delete" /\ Exists(result'.id))
        => LET id == result'.id
           IN  /\ Live(id) => result'.status = "OK"
               /\ ~Live(id) => result'.status = "AlreadyDeleted"
               /\ Len(todos') = Len(todos)
               /\ todos'[id].DeletedAt # <<>> ]_vars

\* C7: once DeleteTodo(id) has succeeded the entity is never live again: no step
\* clears its deleted-at marker, no UpdateTodo(id, _) returns anything but NotFound,
\* GetTodoByID(id) returns NotFound and no list operation returns the entity.
C7_DeletedNeverLiveAgain ==
  [][ \A id \in 1..Len(todos) :
        todos[id].DeletedAt # <<>>
          => /\ todos'[id].DeletedAt # <<>>
             /\ (result'.op = "update" /\ result'.id = id) => result'.status = "NotFound"
             /\ GetTodoByID(id)' = <<>>
             /\ InNoList(id)' ]_vars

\* C8: of two DeleteTodo calls on the same live id that run concurrently at most one
\* returns success: the one that comes second finds zero rows affected and returns
\* the AlreadyDeleted error.
C8_OneConcurrentDeleteSucceeds ==
  [][ \A p \in Procs :
        (pc[p] = "delete_fetched" /\ pc'[p] = "idle" /\ beaten[p])
          => result'.status = "AlreadyDeleted" ]_vars

\* C9: when a DeleteTodo(id) has committed between the fetch and the save of an
\* UpdateTodo(id, req) and the update returns success, the row stays soft-deleted:
\* GetTodoByID(id) returns NotFound and no list operation returns the entity.
C9_RacedUpdateStaysDeleted ==
  [][ \A p \in Procs :
        (pc[p] = "update_fetched" /\ pc'[p] = "idle" /\ ~Live(arg[p])
           /\ result'.status = "OK")
          => /\ todos'[arg[p]].DeletedAt # <<>>
             /\ GetTodoByID(arg[p])' = <<>>
             /\ InNoList(arg[p])' ]_vars

\* C10: GetPendingTodos returns only entities with Completed = false,
\* GetCompletedTodos only entities with Completed = true, no entity is in both,
\* and together they are exactly the live entities GetAllTodos returns.
C10_PendingCompletedPartition ==
  LET pending == Entities(GetPendingTodos)
      completed == Entities(GetCompletedTodos)
      all == Entities(GetAllTodos)
  IN  /\ \A t \in pending : t.Completed = FALSE
      /\ \A t \in completed : t.Completed = TRUE
      /\ pending \cap completed = {}
      /\ pending \cup completed = all
      /\ all = {todos[id] : id \in LiveIds}
      /\ Len(GetPendingTodos) + Len(GetCompletedTodos) = Len(GetAllTodos)

\* a pending entity, a completed entity and nothing else: each list has one entry
C10_Witness ==
  /\ Len(GetPendingTodos) = 1 /\ Len(GetCompletedTodos) = 1
  /\ Len(GetAllTodos) = 2

\* the list holds each of the rows with ids in S once and nothing else
ExactlyOnce(list, S) ==
  /\ Len(list) = Cardinality(S)
  /\ Entities(list) = {todos[id] : id \in S}

\* the list is in descending creation-time order
NewestCreatedFirst(list) ==
  \A i, j \in 1..Len(list) : i < j => list[i].CreatedAt >= list[j].CreatedAt

\* C11: for every priority p of the enumeration GetTodosByPriority(p) returns
\* exactly the live entities whose stored priority is p, none missing, none extra,
\* none soft-deleted, in descending creation-time order; for any other p it
\* returns the validation error and no list.
C11_ByPriorityExactAndOrdered ==
  /\ \A p \in Enumeration :
       /\ Len(GetTodosByPriority(p)) = 1
       /\ ExactlyOnce(GetTodosByPriority(p)[1],
                      {id \in 1..Len(todos) :
                         todos[id].DeletedAt = <<>> /\ todos[id].Priority = p})
       /\ NewestCreatedFirst(GetTodosByPriority(p)[1])
  /\ \A p \in PriorityInputs \ Enumeration : GetTodosByPriority(p) = <<>>

\* two live entities of one priority, the older one written last, next to none of
\* another priority
C11_Witness ==
  /\ Len(GetTodosByPriority("urgent")[1]) = 2
  /\ todos[1].UpdatedAt > todos[2].UpdatedAt
  /\ GetTodosByPriority("low") = << <<>> >>
  /\ GetTodosByPriority("invalid") = <<>>

\* the rank of a priority in the order the enumeration declares its members
DeclaredRank(p) ==
  CASE p = "low" -> 1 [] p = "medium" -> 2 [] p = "high" -> 3 [] p = "urgent" -> 4
    [] OTHER -> 0

\* C12: GetPendingTodos returns the live incomplete entities ordered by priority
\* rank descending (urgent, high, medium, low) and within one priority by most
\* recently created first.
C12_PendingByRankDescending ==
  /\ ExactlyOnce(GetPendingTodos, {id \in LiveIds : todos[id].Completed = FALSE})
  /\ \A i, j \in 1..Len(GetPendingTodos) :
       i < j => LET a == GetPendingTodos[i]
                    b == GetPendingTodos[j]
                IN  \/ DeclaredRank(a.Priority) > DeclaredRank(b.Priority)
                    \/ /\ DeclaredRank(a.Priority) = DeclaredRank(b.Priority)
                       /\ a.CreatedAt >= b.CreatedAt

\* the identifiers of a result list, in its order
IdsOf(list) == [i \in 1..Len(list) |-> list[i].ID]

\* C13: after any sequence of create, update and delete operations GetAllTodos
\* returns every live entity exactly once and no soft-deleted entity, newest
\* created first; an UpdateTodo does not move an entity: the list stays in the
\* order in which the entities were created (the store assigns ids in that order).
C13_AllLiveNewestFirst ==
  /\ ExactlyOnce(GetAllTodos, {id \in 1..Len(todos) : todos[id].DeletedAt = <<>>})
  /\ NewestCreatedFirst(GetAllTodos)
  /\ \A i, j \in 1..Len(GetAllTodos) : i < j => IdsOf(GetAllTodos)[i] > IdsOf(GetAllTodos)[j]

\* an UpdateTodo of the older of two live entities has just returned
C13_Witness ==
  /\ result.op = "update" /\ result.status = "OK" /\ result.id = 1
  /\ IdsOf(GetAllTodos) = <<2, 1>>
  /\ todos[1].UpdatedAt > todos[2].UpdatedAt

\* C14: after CreateTodo returns an entity with identifier id, GetTodoByID(id)
\* returns that same entity (ID, Title, Description, Priority, DueDate,
\* Completed = false) for as long as no UpdateTodo or DeleteTodo of id has written;
\* GetTodoByID returns the not-found error exactly when no live row has the id.
C14_GetByIDReturnsCreated ==
  [][ /\ (result'.op = "create" /\ result'.status = "OK")
           => /\ \E id \in Ids : id = result'.id /\ GetTodoByID(id)' = <<result'.todo>>
              /\ result'.todo.ID = result'.id
              /\ result'.todo.Completed = FALSE
      /\ \A id \in Ids :
           /\ (Exists(id) /\ GetTodoByID(id)' # GetTodoByID(id))
                => \E p \in Procs : /\ pc[p] \in {"update_fetched", "delete_fetched"}
                                    /\ arg[p] = id /\ pc'[p] = "idle"
           /\ (GetTodoByID(id)' = <<>>)
                <=> ~ \E i \in 1..Len(todos') :
                        todos'[i].ID = id /\ todos'[i].DeletedAt = <<>>
           /\ GetTodoByID(id)' # <<>> => GetTodoByID(id)'[1].ID = id ]_vars

\* a second entity, with a due date, has just been created after the first was
\* deleted: one id is found, the other is not
C14_Witness ==
  /\ result.op = "create" /\ result.status = "OK" /\ result.id = 2
  /\ result.todo.DueDate = <<1>> /\ result.todo.Priority = "urgent"
  /\ GetTodoByID(2) = <<result.todo>>
  /\ GetTodoByID(1) = <<>>

\* C15: every ValidationError the service produces (a priority outside the
\* enumeration) is answered with a client-error status (4xx), on every endpoint
\* that can supply a priority: create, update and the priority query parameter
\* of the list endpoint.
C15_ValidationErrorIsClientError ==
  result.status = "ValidationError" => http["r1"].code \in 400..499

\* C16: in both servers a get, update or delete request for an identifier with no
\* live row is answered with 404, and an error of another kind (validation,
\* already deleted) is never answered with 404.
C16_NotFoundIs404 ==
  [][ result'.op \in {"get", "update", "delete"}
        => /\ ~Live(result'.id) => http'["r1"].code = 404
           /\ result'.status \in {"ValidationError", "AlreadyDeleted"}
                => http'["r1"].code # 404 ]_vars

\* C17: on a shutdown signal the process stops accepting requests and lets the
\* requests in progress finish, up to the grace period, before it closes the
\* store connection: while the grace period has not run out the connection is
\* never closed with the listener open or with a request still in progress.
C17_DrainBeforeStoreClose ==
  main.db = "closed"
    => /\ ~main.listening
       /\ main.expired \/ \A p \in Procs : pc[p] = "idle"

\* C18: after any sequence of HTTP create and update requests every stored Todo
\* has a non-empty title: a create request whose title is empty or only whitespace
\* is answered with 400 without a call of the service, and no later request makes
\* a stored title empty.
C18_StoredTitleNeverEmpty ==
  [][ /\ \A i \in 1..Len(todos') : todos'[i].Title # ""
      /\ \A req \in HttpCreateInputs :
           (/\ TrimSpace(req.Title) = ""
            /\ \/ TodoHandler_CreateTodo("r1", req)
               \/ HumaTodoHandler_CreateTodo("r1", req))
             => /\ http'["r1"].code = 400
                /\ result' = NoResult
                /\ todos' = todos ]_vars

\* C19: in every reachable state the priority of every stored Todo, live or
\* soft-deleted, is a member of the enumeration: no sequence of CreateTodo and
\* UpdateTodo calls, whatever their inputs, persists another value.
C19_StoredPriorityInEnumeration ==
  \A i \in 1..Len(todos) : todos[i].Priority \in Enumeration

\* a create with a priority outside the enumeration has just been rejected; the
\* table holds a soft-deleted row and a live one
C19_Witness ==
  /\ result.op = "create" /\ result.status = "ValidationError"
  /\ Len(todos) = 2
  /\ todos[1].DeletedAt # <<>> /\ todos[2].DeletedAt = <<>>

\* C20: identifiers are assigned at creation and never change or repeat: a
\* CreateTodo returns an id different from the id of every row ever created,
\* soft-deleted rows included, no two rows have one id, no row is removed, and no
\* step (UpdateTodo and DeleteTodo among them) changes the ID or the CreatedAt
\* of a row.
C20_IdAndCreatedAtImmutable ==
  [][ /\ Len(todos') >= Len(todos)
      /\ \A i \in 1..Len(todos) :
           /\ todos'[i].ID = todos[i].ID
           /\ todos'[i].CreatedAt = todos[i].CreatedAt
      /\ (result'.op = "create" /\ result'.status = "OK")
           => \A i \in 1..Len(todos) : todos[i].ID # result'.todo.ID
      /\ \A i, j \in 1..Len(todos') : i # j => todos'[i].ID # todos'[j].ID ]_vars

\* an entity has been updated and then deleted, and a CreateTodo has just
\* returned the next id
C20_Witness ==
  /\ result.op = "create" /\ result.status = "OK" /\ result.todo.ID = 2
  /\ todos[1].DeletedAt # <<>>
  /\ todos[1].UpdatedAt > todos[1].CreatedAt

\* C21: a list request that carries both query parameters, priority = p and
\* completed = c, is answered with todos that match both: priority equal to p and
\* completed equal to c.
C21_BothFiltersApply ==
  \A priority \in Enumeration, completed \in {"true", "false"} :
    /\ \A t \in Entities(TodoHandler_GetAllTodos_Response(priority, completed).data) :
         t.Priority = priority /\ t.Completed = (completed = "true")
    /\ \A t \in Entities(HumaTodoHandler_GetAllTodos_Response(priority, completed).data) :
         t.Priority = priority /\ t.Completed = (completed = "true")

\* C22: when a store call fails inside a service operation the service returns an
\* error that wraps the store's error in a text naming the operation, makes no
\* further store call for that request (no retry) and leaves the table as it was;
\* no return carries both a result value and an error.
C22_StoreErrorPropagated ==
  [][ /\ result'.status = "StoreError"
           => /\ todos' = todos /\ now' = now
              /\ pc'["r1"] = "idle"
              /\ Len(result'.err) > 1
              /\ result'.err[Len(result'.err)] \in StoreErrors
              /\ result'.err[3] \in {"sakusei", "shutoku", "koushin", "sakujo"}
      /\ result'.err # <<>> => result'.todo = NoTodo
      /\ result'.status = "OK" => result'.err = <<>> ]_vars

\* the Save of an UpdateTodo has just failed, after the fetch had succeeded
C22_Witness ==
  /\ result.op = "update" /\ result.status = "StoreError"
  /\ result.err = ErrWrapped("koushin", "connection refused")
  /\ Live(result.id)
  /\ pc["r1"] = "idle"

\* C23: UpdateTodo writes the full merged row it fetched: a save that succeeds
\* stores, in every field its request leaves absent, the value read at the fetch,
\* whatever another call has stored there since. So when two UpdateTodo calls on
\* one live id with disjoint fields both fetch before either saves, both return
\* success and the row keeps only the later save's change.
C23_SaveWritesFetchedRow ==
  [][ \A p \in Procs :
        (pc[p] = "update_fetched" /\ pc'[p] = "idle" /\ result'.status = "OK")
          => \A req \in UpdateInputs :
               UpdateSave(p, req)
                 => /\ req.Title = <<>> => todos'[arg[p]].Title = local[p].Title
                    /\ req.Completed = <<>>
                         => todos'[arg[p]].Completed = local[p].Completed
                    /\ todos'[arg[p]].Description = local[p].Description
                    /\ todos'[arg[p]].Priority = local[p].Priority
                    /\ todos'[arg[p]].DueDate = local[p].DueDate ]_vars

\* a lost update: a third call fetched the row when its title was "b", and the
\* save that has just returned success set Completed and put the title back to "a"
C23_Witness ==
  /\ result.op = "update" /\ result.status = "OK"
  /\ todos[result.id].Title = "a" /\ todos[result.id].Completed = TRUE
  /\ todos[result.id].DeletedAt = <<>>
  /\ \E q \in Procs : /\ pc[q] = "update_fetched" /\ arg[q] = result.id
                      /\ local[q].Title = "b" /\ local[q].Completed = FALSE
                      /\ local[q].UpdatedAt < todos[result.id].UpdatedAt

\* C24: UpdateTodo can never clear a due date: once a stored entity has a
\* non-null due date, no sequence of UpdateTodo calls makes it null again.
C24_DueDateNeverCleared ==
  [][ \A i \in 1..Len(todos) :
        todos[i].DueDate # <<>> => todos'[i].DueDate # <<>> ]_vars

\* C24 (amended): an UpdateTodo that fetched the entity with a non-null due date
\* stores a non-null due date, whatever its request; a stored due date becomes
\* null only by the save of an UpdateTodo that fetched the entity while its due
\* date was still null.
C24_DueDateClearedOnlyByStaleSave ==
  [][ /\ \A p \in Procs :
           (/\ pc[p] = "update_fetched" /\ pc'[p] = "idle"
            /\ result'.status = "OK" /\ local[p].DueDate # <<>>)
             => todos'[arg[p]].DueDate # <<>>
      /\ \A i \in 1..Len(todos) :
           (todos[i].DueDate # <<>> /\ todos'[i].DueDate = <<>>)
             => \E p \in Procs : /\ pc[p] = "update_fetched" /\ pc'[p] = "idle"
                                 /\ arg[p] = i /\ local[p].DueDate = <<>> ]_vars

\* a call fetched the entity with its due date set, and the save that has just
\* returned, of a call that had fetched earlier, has stored a null due date
C24_Witness ==
  /\ result.op = "update" /\ result.status = "OK"
  /\ todos[result.id].DueDate = <<>> /\ todos[result.id].Title = "b"
  /\ \E q \in Procs : /\ pc[q] = "update_fetched" /\ arg[q] = result.id
                      /\ local[q].DueDate = <<2>>

\* C25: the two bindings are equivalent. On the same store state, for the same
\* list request (the completed parameter neither "true" nor "false" included)
\* TodoHandler and HumaTodoHandler answer with the same status class and the same
\* set of todos; and for the same non-NotFound error of an update or a delete
\* they answer with the same status class.
C25_BindingsEquivalent ==
  /\ \A pr \in QueryPriorityInputs, c \in QueryCompletedInputs :
       /\ TodoHandler_GetAllTodos_Response(pr, c).code \div 100
            = HumaTodoHandler_GetAllTodos_Response(pr, c).code \div 100
       /\ Entities(TodoHandler_GetAllTodos_Response(pr, c).data)
            = Entities(HumaTodoHandler_GetAllTodos_Response(pr, c).data)
  /\ \A id \in Ids :
       /\ \A err \in {ErrInvalidPriority(pr) : pr \in HttpPriorityInputs \ {""}}
                       \cup {ErrWrapped(o, e) : o \in {"shutoku", "koushin"},
                                                e \in StoreErrors} :
            TodoHandler_ErrorCode("update", err) \div 100
              = HumaTodoHandler_ErrorCode("update", id, err) \div 100
       /\ \A err \in {ErrAlreadyDeleted(id)}
                       \cup {ErrWrapped(o, e) : o \in {"shutoku", "sakujo"},
                                                e \in StoreErrors} :
            TodoHandler_ErrorCode("delete", err) \div 100
              = HumaTodoHandler_ErrorCode("delete", id, err) \div 100

TypeOK ==
  /\ Len(todos) <= MaxTodos
  /\ now \in Nat
  /\ \A p \in Procs : pc[p] \in {"idle", "update_fetched", "delete_fetched"}
====
